---- MODULE Spec2Model ----
(***************************************************************************)
(* Model of the TouchManager shape registry (src/src/TouchManager.h):      *)
(* the group table, the ordered shape list, the font table, the bound      *)
(* rendering surface, the four shape kinds with their containment tests    *)
(* and draw operations, and the public operations of TouchManager.         *)
(***************************************************************************)
EXTENDS Integers, Sequences, FiniteSets, TLC

\* ---------------------------------------------------------------------------
\* Bounds of the model
\* ---------------------------------------------------------------------------
MaxShapes == 2
MaxFonts == 1

\* ---------------------------------------------------------------------------
\* Values of the program
\* ---------------------------------------------------------------------------
\* the null Adafruit_GFX* / the null GFXfont*
NullGfx == 0
NullFont == 0
\* the null std::shared_ptr<TouchGroup>
NullGroup == [addr |-> 0, id |-> 0]
\* the value findGroupIDAt returns for "no match"
NoMatch == 0 - 1

\* the display objects a caller can pass to begin / drawAll
Surfaces == {1}
\* the GFXfont objects a caller can pass to addFont
FontHandles == {1, 2}

\* the touch points the queries are made at
PointXs == {0, 7, 12}
PointYs == {0, 7}
Points == PointXs \X PointYs

\* the calls the callers make to the add operations: the arguments of each
RectCalls ==
  { [x |-> 0, y |-> 0, w |-> 8, h |-> 8, color |-> 63488, filled |-> TRUE, groupID |-> 1],
    [x |-> 0, y |-> 0, w |-> 8, h |-> 8, color |-> 63488, filled |-> FALSE, groupID |-> 0] }
CircleCalls ==
  { [x |-> 7, y |-> 7, d |-> 5, color |-> 2016, filled |-> FALSE, groupID |-> 2],
    [x |-> 7, y |-> 7, d |-> 5, color |-> 2016, filled |-> TRUE, groupID |-> 0] }
PolygonCalls ==
  { [points |-> << <<0, 0>>, <<13, 0>>, <<0, 9>> >>, color |-> 65504, groupID |-> 1],
    [points |-> << <<0, 0>>, <<13, 0>> >>, color |-> 65504, groupID |-> 0] }
TextCalls ==
  { [x |-> 0, y |-> 0, text |-> <<"A">>, fontIndex |-> 0, color |-> 65504,
     size |-> 1, direction |-> 1, groupID |-> 2],
    [x |-> 0, y |-> 0, text |-> <<"A">>, fontIndex |-> 0 - 1, color |-> 65504,
     size |-> 1, direction |-> 1, groupID |-> 0] }

\* main.cpp: the characters the interpreter tells apart, by their codes
Quote == 34
Hash == 35
Digit0 == 48
Digit9 == 57
UpperA == 65
UpperC == 67
UpperZ == 90
LowerA == 97
LowerF == 102
LowerZ == 122

\* "int attr[('Z' - 'A')]": the number of entries of the attribute array
AttrSize == UpperZ - UpperA

\* "#define LTR(x) (x - 'a')"
LTR(x) == x - LowerA

\* no attribute store has been made yet
NoSlot == 0 - 1

VARIABLES
  allGroups,   \* TouchManager::allGroups, the group pointers in table order
  allShapes,   \* TouchManager::allShapes, the shape objects in insertion order
  m_gfx,       \* TouchManager::m_gfx, the bound display or NullGfx
  fontTable,   \* TouchManager::fontTable
  gfx,         \* the state of each display object (Adafruit_GFX)
  lastCall,    \* the operation that ran last, with its group id / point arguments
  ret,         \* what the last operation returned
  drawLog,     \* the shape->draw(gfx) calls the last operation made
  gfxLog,      \* the display calls the last operation made
  textDrawn,   \* per shape: it is a text label and draw has been called on it
  radix,       \* main.cpp: the radix of the number being received
  n,           \* main.cpp: the accumulated number
  attr,        \* main.cpp: the attribute array, slot i at attr[i + 1]
  c,           \* main.cpp: the character received last
  quoting,     \* main.cpp: a quoted text is being received
  text,        \* main.cpp: the quoted text
  slot         \* the index LTR(c) of the last attribute store, or NoSlot

\* the globals of the serial command interpreter
serialVars == <<radix, n, attr, c, quoting, text, slot>>

\* the TouchManager and the displays
managerVars == <<allGroups, allShapes, m_gfx, fontTable, gfx, lastCall, ret,
                 drawLog, gfxLog, textDrawn>>

vars == <<allGroups, allShapes, m_gfx, fontTable, gfx, lastCall, ret,
          drawLog, gfxLog, textDrawn, radix, n, attr, c, quoting, text, slot>>

\* ---------------------------------------------------------------------------
\* Helpers
\* ---------------------------------------------------------------------------
\* C++ integer division (truncation toward zero), b # 0
CDiv(a, b) ==
  IF (a >= 0) = (b > 0) \/ a = 0
  THEN (IF a >= 0 THEN a ELSE 0 - a) \div (IF b >= 0 THEN b ELSE 0 - b)
  ELSE 0 - ((IF a >= 0 THEN a ELSE 0 - a) \div (IF b >= 0 THEN b ELSE 0 - b))

\* ---------------------------------------------------------------------------
\* Shape constructors
\* ---------------------------------------------------------------------------
TouchRect(a, group) ==
  [kind |-> "rect", group |-> group, color |-> a.color, filled |-> a.filled,
   x |-> a.x, y |-> a.y, w |-> a.w, h |-> a.h]

TouchCircle(a, group) ==
  [kind |-> "circle", group |-> group, color |-> a.color, filled |-> a.filled,
   x |-> a.x, y |-> a.y, d |-> a.d]

TouchPolygon(a, group) ==
  [kind |-> "polygon", group |-> group, color |-> a.color, filled |-> FALSE,
   points |-> a.points]

\* a TouchText constructor that presets the bounds from the built-in font
TouchText_EagerBounds(a, group) ==
  [kind |-> "text", group |-> group, color |-> a.color, filled |-> FALSE,
   x |-> a.x, y |-> a.y, text |-> a.text, fontIndex |-> a.fontIndex,
   size |-> a.size, direction |-> a.direction,
   boundsCalculated |-> TRUE, bX |-> a.x, bY |-> a.y,
   bW |-> 6 * Len(a.text) * a.size, bH |-> 8 * a.size]

\* bX, bY, bW, bH are left unset by the constructor; they are read only
\* when boundsCalculated is true, so the placeholder is never observed
TouchText(a, group) ==
  [kind |-> "text", group |-> group, color |-> a.color, filled |-> FALSE,
   x |-> a.x, y |-> a.y, text |-> a.text, fontIndex |-> a.fontIndex,
   size |-> a.size, direction |-> a.direction,
   boundsCalculated |-> FALSE, bX |-> 0, bY |-> 0, bW |-> 0, bH |-> 0]

\* ---------------------------------------------------------------------------
\* Containment tests
\* ---------------------------------------------------------------------------
\* TouchRect::contains with the right and bottom edges included
RectContains_Closed(s, px, py) ==
  (px >= s.x) /\ (px <= (s.x + s.w)) /\ (py >= s.y) /\ (py <= (s.y + s.h))

\* TouchRect::contains reading w and h as the right and bottom coordinates
RectContains_Corners(s, px, py) ==
  (px >= s.x) /\ (px < s.w) /\ (py >= s.y) /\ (py < s.h)

RectContains(s, px, py) ==
  (px >= s.x) /\ (px < (s.x + s.w)) /\ (py >= s.y) /\ (py < (s.y + s.h))

\* TouchCircle::contains with the radius rounded up, (d + 1) / 2
CircleContains_RoundUp(s, px, py) ==
  LET dx == px - s.x
      dy == py - s.y
      r  == CDiv(s.d + 1, 2)
  IN (dx * dx + dy * dy) <= (r * r)

CircleContains(s, px, py) ==
  LET dx == px - s.x
      dy == py - s.y
      r  == CDiv(s.d, 2)
  IN (dx * dx + dy * dy) <= (r * r)

\* the left operand of && with ">=" for the first ">": an edge whose two ends
\* lie on the query's y would pass
PolygonEdgeCrosses_AtOrAbove(pts, i, j, py) ==
  (pts[i][2] >= py) # (pts[j][2] > py)

\* the left operand of && in the scan's test: the two ends of edge (i, j) lie
\* on opposite sides of the query's y
PolygonEdgeCrosses(pts, i, j, py) ==
  (pts[i][2] > py) # (pts[j][2] > py)

\* the divisor of the right operand of &&, which C++ evaluates only when the
\* left operand is true
PolygonEdgeDivisor(pts, i, j) == pts[j][2] - pts[i][2]

\* the previous vertex of vertex i in the scan: j = n - 1 first, then i - 1
PolygonPrev(pts, i) == IF i = 1 THEN Len(pts) ELSE i - 1

\* the scan of TouchPolygon::contains evaluates a division by zero
PolygonDividesByZero(s, py) ==
  /\ Len(s.points) >= 3
  /\ \E i \in DOMAIN s.points :
       /\ PolygonEdgeCrosses(s.points, i, PolygonPrev(s.points, i), py)
       /\ PolygonEdgeDivisor(s.points, i, PolygonPrev(s.points, i)) = 0

\* one edge (i, j) of the even-odd scan: does it flip isInside
PolygonEdgeFlips(pts, i, j, px, py) ==
  /\ PolygonEdgeCrosses(pts, i, j, py)
  /\ px < CDiv((pts[j][1] - pts[i][1]) * (py - pts[i][2]),
               pts[j][2] - pts[i][2]) + pts[i][1]

RECURSIVE PolygonScan(_, _, _, _, _, _)
PolygonScan(pts, i, j, px, py, isInside) ==
  IF i > Len(pts) THEN isInside
  ELSE PolygonScan(pts, i + 1, i, px, py,
                   IF PolygonEdgeFlips(pts, i, j, px, py)
                   THEN ~isInside ELSE isInside)

\* TouchPolygon::contains without the "if (n < 3) return false" guard
PolygonContains_NoGuard(s, px, py) ==
  LET size == Len(s.points)
  IN PolygonScan(s.points, 1, size, px, py, FALSE)

PolygonContains(s, px, py) ==
  LET size == Len(s.points)
  IN IF size < 3 THEN FALSE
     ELSE PolygonScan(s.points, 1, size, px, py, FALSE)

TextContains(s, px, py) ==
  IF ~s.boundsCalculated THEN FALSE
  ELSE (px >= s.bX) /\ (px < (s.bX + s.bW)) /\ (py >= s.bY) /\ (py < (s.bY + s.bH))

\* virtual dispatch of TouchShape::contains
Contains(s, px, py) ==
  CASE s.kind = "rect"    -> RectContains(s, px, py)
    [] s.kind = "circle"  -> CircleContains(s, px, py)
    [] s.kind = "polygon" -> PolygonContains(s, px, py)
    [] s.kind = "text"    -> TextContains(s, px, py)

\* ---------------------------------------------------------------------------
\* The display (Adafruit_GFX), as far as TouchText::draw uses it
\* ---------------------------------------------------------------------------
\* a display object as constructed
InitSurface ==
  [rotation |-> 0, font |-> NullFont, cursorX |-> 0, cursorY |-> 0,
   textColor |-> 65535, textSize |-> 1]

\* glyph cell of a font: the built-in font is 6x8, each GFXfont has its own
CharW(font) == IF font = NullFont THEN 6 ELSE 6 + 2 * font
CharH(font) == IF font = NullFont THEN 8 ELSE 8 + 2 * font

\* gfx->getTextBounds(str, x, y, &x1, &y1, &w, &h) under the display's
\* current font and text size
GetTextBounds(surf, str, x, y) ==
  [bX |-> x, bY |-> y,
   bW |-> Len(str) * CharW(surf.font) * surf.textSize,
   bH |-> IF Len(str) = 0 THEN 0 ELSE CharH(surf.font) * surf.textSize]

\* gfx->print(str): the cursor moves past the text
PrintText(surf, str) ==
  [surf EXCEPT !.cursorX = @ + Len(str) * CharW(surf.font) * surf.textSize]

\* ---------------------------------------------------------------------------
\* Draw operations: each yields the shape afterwards, the display afterwards
\* and the display calls made
\* ---------------------------------------------------------------------------
RectDraw(s, surf) ==
  [shape |-> s, surf |-> surf,
   calls |-> << <<(IF s.filled THEN "fillRect" ELSE "drawRect"),
                  s.x, s.y, s.w, s.h, s.color>> >>]

CircleDraw(s, surf) ==
  [shape |-> s, surf |-> surf,
   calls |-> << <<(IF s.filled THEN "fillCircle" ELSE "drawCircle"),
                  s.x, s.y, CDiv(s.d, 2), s.color>> >>]

RECURSIVE PolygonLines(_, _, _)
PolygonLines(pts, i, color) ==
  IF i > Len(pts) - 1 THEN <<>>
  ELSE << <<"drawLine", pts[i][1], pts[i][2], pts[i + 1][1], pts[i + 1][2], color>> >>
       \o PolygonLines(pts, i + 1, color)

\* TouchPolygon::draw that closes the outline from 2 points on, not from 3
PolygonDraw_CloseFromTwo(s, surf) ==
  [shape |-> s, surf |-> surf,
   calls |->
     IF Len(s.points) < 2 THEN <<>>
     ELSE PolygonLines(s.points, 1, s.color)
          \o << <<"drawLine", s.points[Len(s.points)][1], s.points[Len(s.points)][2],
                  s.points[1][1], s.points[1][2], s.color>> >>]

PolygonDraw(s, surf) ==
  [shape |-> s, surf |-> surf,
   calls |->
     IF Len(s.points) < 2 THEN <<>>
     ELSE PolygonLines(s.points, 1, s.color)
          \o (IF Len(s.points) >= 3
              THEN << <<"drawLine", s.points[Len(s.points)][1], s.points[Len(s.points)][2],
                        s.points[1][1], s.points[1][2], s.color>> >>
              ELSE <<>>)]

\* steps 1-2 of TouchText::draw with an out-of-range index clamped into the
\* table instead of falling back to setFont(NULL)
TextFont_Clamp(s, fonts) ==
  IF s.fontIndex >= 0 /\ s.fontIndex < Len(fonts)
  THEN fonts[s.fontIndex + 1]
  ELSE IF Len(fonts) > 0 THEN fonts[1] ELSE NullFont

\* step 2 of TouchText::draw: the font the label selects
TextFont(s, fonts) ==
  IF s.fontIndex >= 0 /\ s.fontIndex < Len(fonts)
  THEN fonts[s.fontIndex + 1]
  ELSE NullFont

\* step 4 without the "if (!boundsCalculated)" guard: measure at every draw
TextMeasure_Always(s, surf) ==
  LET b == GetTextBounds(surf, s.text, s.x, s.y)
  IN [s EXCEPT !.bX = b.bX, !.bY = b.bY, !.bW = b.bW, !.bH = b.bH,
               !.boundsCalculated = TRUE]

\* step 4 without "boundsCalculated = true"
TextMeasure_NoFlag(s, surf) ==
  IF ~s.boundsCalculated
  THEN LET b == GetTextBounds(surf, s.text, s.x, s.y)
       IN [s EXCEPT !.bX = b.bX, !.bY = b.bY, !.bW = b.bW, !.bH = b.bH]
  ELSE s

\* step 4 of TouchText::draw: measure the bounds if not done yet
TextMeasure(s, surf) ==
  IF ~s.boundsCalculated
  THEN LET b == GetTextBounds(surf, s.text, s.x, s.y)
       IN [s EXCEPT !.bX = b.bX, !.bY = b.bY, !.bW = b.bW, !.bH = b.bH,
                    !.boundsCalculated = TRUE]
  ELSE s

\* TouchText::draw without step 6, "gfx->setRotation(oldRot)"
TextDraw_NoRestore(s, surf, fonts) ==
  LET font == TextFont(s, fonts)
      set  == [surf EXCEPT !.font = font, !.rotation = s.direction,
                           !.cursorX = s.x, !.cursorY = s.y,
                           !.textColor = s.color, !.textSize = s.size]
  IN [shape |-> TextMeasure(s, set),
      surf  |-> PrintText(set, s.text),
      calls |-> << <<"getRotation">>, <<"setFont", font>>,
                   <<"setRotation", s.direction>>, <<"setCursor", s.x, s.y>>,
                   <<"setTextColor", s.color>>, <<"setTextSize", s.size>> >>
                \o (IF ~s.boundsCalculated
                    THEN << <<"getTextBounds", s.text, s.x, s.y>> >> ELSE <<>>)
                \o << <<"print", s.text>> >>]

TextDraw(s, surf, fonts) ==
  LET oldRot == surf.rotation
      font   == TextFont(s, fonts)
      set    == [surf EXCEPT !.font = font, !.rotation = s.direction,
                             !.cursorX = s.x, !.cursorY = s.y,
                             !.textColor = s.color, !.textSize = s.size]
      s2     == TextMeasure(s, set)
      out    == PrintText(set, s.text)
  IN [shape |-> s2,
      surf  |-> [out EXCEPT !.rotation = oldRot],
      calls |-> << <<"getRotation">>, <<"setFont", font>>,
                   <<"setRotation", s.direction>>, <<"setCursor", s.x, s.y>>,
                   <<"setTextColor", s.color>>, <<"setTextSize", s.size>> >>
                \o (IF ~s.boundsCalculated
                    THEN << <<"getTextBounds", s.text, s.x, s.y>> >> ELSE <<>>)
                \o << <<"print", s.text>>, <<"setRotation", oldRot>> >>]

\* virtual dispatch of TouchShape::draw
Draw(s, surf, fonts) ==
  CASE s.kind = "rect"    -> RectDraw(s, surf)
    [] s.kind = "circle"  -> CircleDraw(s, surf)
    [] s.kind = "polygon" -> PolygonDraw(s, surf)
    [] s.kind = "text"    -> TextDraw(s, surf, fonts)

\* ---------------------------------------------------------------------------
\* TouchManager: private helper
\* ---------------------------------------------------------------------------
\* the addresses of the TouchGroup objects that are alive (held by the table
\* or by a shape)
LiveAddrs(groups, shapes) ==
  {groups[i].addr : i \in DOMAIN groups}
    \cup {shapes[i].group.addr : i \in DOMAIN shapes}

\* std::make_shared<TouchGroup>: an address no live object has
FreshAddr(groups, shapes) ==
  LET live == LiveAddrs(groups, shapes) \cup {NullGroup.addr}
  IN CHOOSE a \in 1..(Cardinality(live) + 1) :
       a \notin live /\ \A b \in 1..(a - 1) : b \in live

\* getOrCreateGroup without the find_if lookup: a new group on every call
GetOrCreateGroup_AlwaysCreate(groups, shapes, groupID) ==
  IF groupID = 0 THEN [ptr |-> NullGroup, groups |-> groups]
  ELSE LET newGroup == [addr |-> FreshAddr(groups, shapes), id |-> groupID]
       IN [ptr |-> newGroup, groups |-> Append(groups, newGroup)]

\* getOrCreateGroup without the "if (!groupID) return nullptr" line
GetOrCreateGroup_NoShortCircuit(groups, shapes, groupID) ==
  IF \E i \in DOMAIN groups : groups[i].id = groupID
  THEN LET it == CHOOSE i \in DOMAIN groups : groups[i].id = groupID
       IN [ptr |-> groups[it], groups |-> groups]
  ELSE LET newGroup == [addr |-> FreshAddr(groups, shapes), id |-> groupID]
       IN [ptr |-> newGroup, groups |-> Append(groups, newGroup)]

\* getOrCreateGroup without "allGroups.push_back(newGroup)"
GetOrCreateGroup_NoPushBack(groups, shapes, groupID) ==
  IF groupID = 0 THEN [ptr |-> NullGroup, groups |-> groups]
  ELSE IF \E i \in DOMAIN groups : groups[i].id = groupID
  THEN LET it == CHOOSE i \in DOMAIN groups :
                   /\ groups[i].id = groupID
                   /\ \A k \in 1..(i - 1) : groups[k].id # groupID
       IN [ptr |-> groups[it], groups |-> groups]
  ELSE LET newGroup == [addr |-> FreshAddr(groups, shapes), id |-> groupID]
       IN [ptr |-> newGroup, groups |-> groups]

\* getOrCreateGroup: the pointer returned and the group table afterwards
GetOrCreateGroup(groups, shapes, groupID) ==
  IF groupID = 0 THEN [ptr |-> NullGroup, groups |-> groups]
  ELSE IF \E i \in DOMAIN groups : groups[i].id = groupID
  THEN LET it == CHOOSE i \in DOMAIN groups :
                   /\ groups[i].id = groupID
                   /\ \A k \in 1..(i - 1) : groups[k].id # groupID
       IN [ptr |-> groups[it], groups |-> groups]
  ELSE LET newGroup == [addr |-> FreshAddr(groups, shapes), id |-> groupID]
       IN [ptr |-> newGroup, groups |-> Append(groups, newGroup)]

\* ---------------------------------------------------------------------------
\* TouchManager: queries
\* ---------------------------------------------------------------------------
\* findGroupIDAt that keeps scanning when the matched shape has no group
RECURSIVE FindFrom_Fallthrough(_, _, _, _)
FindFrom_Fallthrough(shapes, i, px, py) ==
  IF i < 1 THEN NoMatch
  ELSE IF Contains(shapes[i], px, py) /\ shapes[i].group # NullGroup
       THEN shapes[i].group.id
       ELSE FindFrom_Fallthrough(shapes, i - 1, px, py)

\* findGroupIDAt whose final return yields 0 instead of -1
RECURSIVE FindFrom_ZeroOnMiss(_, _, _, _)
FindFrom_ZeroOnMiss(shapes, i, px, py) ==
  IF i < 1 THEN 0
  ELSE IF Contains(shapes[i], px, py)
       THEN (IF shapes[i].group # NullGroup THEN shapes[i].group.id ELSE NoMatch)
       ELSE FindFrom_ZeroOnMiss(shapes, i - 1, px, py)

\* the reverse scan of findGroupIDAt from position i down to 1
RECURSIVE FindFrom(_, _, _, _)
FindFrom(shapes, i, px, py) ==
  IF i < 1 THEN NoMatch
  ELSE IF Contains(shapes[i], px, py)
       THEN (IF shapes[i].group # NullGroup THEN shapes[i].group.id ELSE NoMatch)
       ELSE FindFrom(shapes, i - 1, px, py)

FindGroupIDAtResult(shapes, px, py) == FindFrom(shapes, Len(shapes), px, py)

\* ---------------------------------------------------------------------------
\* TouchManager: operations
\* ---------------------------------------------------------------------------
Init ==
  /\ allGroups = <<>>
  /\ allShapes = <<>>
  /\ m_gfx = NullGfx
  /\ fontTable = <<>>
  /\ gfx = [g \in Surfaces |-> InitSurface]
  /\ lastCall = [op |-> "TouchManager", groupID |-> 0, px |-> 0, py |-> 0]
  /\ ret = 0
  /\ drawLog = <<>>
  /\ gfxLog = <<>>
  /\ textDrawn = <<>>
  /\ radix = 10
  /\ n = 0
  /\ attr = [i \in 1..AttrSize |-> 0]
  /\ c = 0
  /\ quoting = FALSE
  /\ text = <<>>
  /\ slot = NoSlot

\* begin(gfx); the caller may also pass a null display
Begin(g) ==
  /\ m_gfx' = g
  /\ lastCall' = [op |-> "begin", groupID |-> 0, px |-> 0, py |-> 0]
  /\ ret' = 0
  /\ drawLog' = <<>>
  /\ gfxLog' = <<>>
  /\ UNCHANGED <<serialVars, allGroups, allShapes, fontTable, gfx, textDrawn>>

\* an add operation without the draw of the new shape
DrawIfBound_Never(bound, s, surfs, fonts) ==
  [shape |-> s, surfs |-> surfs, calls |-> <<>>, drawn |-> <<>>]

\* "if (m_gfx) newShape->draw(m_gfx)": the draw an add operation makes
DrawIfBound(bound, s, surfs, fonts) ==
  IF bound # NullGfx
  THEN LET r == Draw(s, surfs[bound], fonts)
       IN [shape |-> r.shape, surfs |-> [surfs EXCEPT ![bound] = r.surf],
           calls |-> r.calls, drawn |-> << [shape |-> s, surface |-> bound] >>]
  ELSE [shape |-> s, surfs |-> surfs, calls |-> <<>>, drawn |-> <<>>]

\* the common body of addRect / addCircle / addPolygon / addText: the group
\* was looked up, the shape constructed; append it, then draw it if bound
PushBackAndDraw(op, groupID, g, newShape) ==
  LET r == DrawIfBound(m_gfx, newShape, gfx, fontTable)
  IN /\ allGroups' = g.groups
     /\ allShapes' = Append(allShapes, r.shape)
     /\ gfx' = r.surfs
     /\ gfxLog' = r.calls
     /\ drawLog' = [k \in DOMAIN r.drawn |->
                      [index |-> Len(allShapes) + 1, surface |-> r.drawn[k].surface]]
     /\ textDrawn' = Append(textDrawn, newShape.kind = "text" /\ r.drawn # <<>>)
     /\ lastCall' = [op |-> op, groupID |-> groupID, px |-> 0, py |-> 0]
     /\ ret' = 0
     /\ UNCHANGED <<serialVars, m_gfx, fontTable>>

\* addRect itself
AddRectCall(a, groupID) ==
  LET g == GetOrCreateGroup(allGroups, allShapes, groupID)
  IN PushBackAndDraw("addRect", groupID, g, TouchRect(a, g.ptr))

\* addRect while the list is below the model's bound
AddRect(a, groupID) ==
  /\ Len(allShapes) < MaxShapes
  /\ AddRectCall(a, groupID)

\* addCircle itself
AddCircleCall(a, groupID) ==
  LET g == GetOrCreateGroup(allGroups, allShapes, groupID)
  IN PushBackAndDraw("addCircle", groupID, g, TouchCircle(a, g.ptr))

\* addCircle while the list is below the model's bound
AddCircle(a, groupID) ==
  /\ Len(allShapes) < MaxShapes
  /\ AddCircleCall(a, groupID)

\* addPolygon itself
AddPolygonCall(a, groupID) ==
  LET g == GetOrCreateGroup(allGroups, allShapes, groupID)
  IN PushBackAndDraw("addPolygon", groupID, g, TouchPolygon(a, g.ptr))

\* addPolygon while the list is below the model's bound
AddPolygon(a, groupID) ==
  /\ Len(allShapes) < MaxShapes
  /\ AddPolygonCall(a, groupID)

\* addText itself
AddTextCall(a, groupID) ==
  LET g == GetOrCreateGroup(allGroups, allShapes, groupID)
  IN PushBackAndDraw("addText", groupID, g, TouchText(a, g.ptr))

\* addText while the list is below the model's bound
AddText(a, groupID) ==
  /\ Len(allShapes) < MaxShapes
  /\ AddTextCall(a, groupID)

\* addFont returning fontTable.size() instead of fontTable.size() - 1
AddFont_ReturnsSize(font) ==
  /\ Len(fontTable) < MaxFonts
  /\ fontTable' = Append(fontTable, font)
  /\ ret' = Len(fontTable')
  /\ lastCall' = [op |-> "addFont", groupID |-> 0, px |-> 0, py |-> 0]
  /\ drawLog' = <<>>
  /\ gfxLog' = <<>>
  /\ UNCHANGED <<serialVars, allGroups, allShapes, m_gfx, gfx, textDrawn>>

AddFont(font) ==
  /\ Len(fontTable) < MaxFonts
  /\ fontTable' = Append(fontTable, font)
  /\ ret' = Len(fontTable') - 1
  /\ lastCall' = [op |-> "addFont", groupID |-> 0, px |-> 0, py |-> 0]
  /\ drawLog' = <<>>
  /\ gfxLog' = <<>>
  /\ UNCHANGED <<serialVars, allGroups, allShapes, m_gfx, gfx, textDrawn>>

FindGroupIDAt(px, py) ==
  /\ ret' = FindGroupIDAtResult(allShapes, px, py)
  /\ lastCall' = [op |-> "findGroupIDAt", groupID |-> 0, px |-> px, py |-> py]
  /\ drawLog' = <<>>
  /\ gfxLog' = <<>>
  /\ UNCHANGED <<serialVars, allGroups, allShapes, m_gfx, fontTable, gfx, textDrawn>>

\* drawAll iterating from the most recently inserted shape to the oldest
RECURSIVE DrawAllFrom_Reverse(_, _, _, _)
DrawAllFrom_Reverse(shapes, i, surf, fonts) ==
  IF i > Len(shapes)
  THEN [shapes |-> shapes, surf |-> surf, calls |-> <<>>, order |-> <<>>]
  ELSE LET j    == Len(shapes) - i + 1
           r    == Draw(shapes[j], surf, fonts)
           rest == DrawAllFrom_Reverse([shapes EXCEPT ![j] = r.shape], i + 1,
                                       r.surf, fonts)
       IN [shapes |-> rest.shapes, surf |-> rest.surf,
           calls |-> r.calls \o rest.calls, order |-> <<j>> \o rest.order]

\* the loop of drawAll from position i on: the shapes afterwards, the display
\* afterwards, the display calls made and the positions drawn, in order
RECURSIVE DrawAllFrom(_, _, _, _)
DrawAllFrom(shapes, i, surf, fonts) ==
  IF i > Len(shapes)
  THEN [shapes |-> shapes, surf |-> surf, calls |-> <<>>, order |-> <<>>]
  ELSE LET r    == Draw(shapes[i], surf, fonts)
           rest == DrawAllFrom([shapes EXCEPT ![i] = r.shape], i + 1, r.surf, fonts)
       IN [shapes |-> rest.shapes, surf |-> rest.surf,
           calls |-> r.calls \o rest.calls, order |-> <<i>> \o rest.order]

DrawAll(g) ==
  LET r == DrawAllFrom(allShapes, 1, gfx[g], fontTable)
  IN /\ allShapes' = r.shapes
     /\ gfx' = [gfx EXCEPT ![g] = r.surf]
     /\ gfxLog' = r.calls
     /\ drawLog' = [k \in DOMAIN r.order |-> [index |-> r.order[k], surface |-> g]]
     /\ textDrawn' = [i \in DOMAIN textDrawn |->
                        \/ textDrawn[i]
                        \/ /\ allShapes[i].kind = "text"
                           /\ \E k \in DOMAIN r.order : r.order[k] = i]
     /\ lastCall' = [op |-> "drawAll", groupID |-> 0, px |-> 0, py |-> 0]
     /\ ret' = 0
     /\ UNCHANGED <<serialVars, allGroups, m_gfx, fontTable>>

\* clearAll that forgets the group table
ClearAllResult_KeepGroups(shapes, groups) ==
  [allShapes |-> <<>>, allGroups |-> groups]

\* what clearAll leaves of the shape list and the group table
ClearAllResult(shapes, groups) ==
  [allShapes |-> <<>>, allGroups |-> <<>>]

ClearAll ==
  LET r == ClearAllResult(allShapes, allGroups)
  IN /\ allShapes' = r.allShapes
     /\ allGroups' = r.allGroups
     /\ textDrawn' = <<>>
     /\ lastCall' = [op |-> "clearAll", groupID |-> 0, px |-> 0, py |-> 0]
     /\ ret' = 0
     /\ drawLog' = <<>>
     /\ gfxLog' = <<>>
     /\ UNCHANGED <<serialVars, m_gfx, fontTable, gfx>>

Next ==
  \/ \E g \in Surfaces \cup {NullGfx} : Begin(g)
  \/ \E a \in RectCalls : AddRect(a, a.groupID)
  \/ \E a \in CircleCalls : AddCircle(a, a.groupID)
  \/ \E a \in PolygonCalls : AddPolygon(a, a.groupID)
  \/ \E a \in TextCalls : AddText(a, a.groupID)
  \/ \E f \in FontHandles : AddFont(f)
  \/ \E p \in Points : FindGroupIDAt(p[1], p[2])
  \/ \E g \in Surfaces : DrawAll(g)
  \/ ClearAll

Spec == Init /\ [][Next]_vars

\* the type of the state
TypeOK ==
  /\ Len(allShapes) <= MaxShapes
  /\ Len(fontTable) <= MaxFonts
  /\ Len(textDrawn) = Len(allShapes)
  /\ m_gfx \in Surfaces \cup {NullGfx}

\* ---------------------------------------------------------------------------
\* Definitions the properties share
\* ---------------------------------------------------------------------------
AddOps == {"addRect", "addCircle", "addPolygon", "addText"}

\* the positions of the shapes whose containment test is true at p
Containing(shapes, p) ==
  {i \in DOMAIN shapes : Contains(shapes[i], p[1], p[2])}

\* the most recently inserted of them
Topmost(shapes, p) ==
  CHOOSE i \in Containing(shapes, p) : \A k \in Containing(shapes, p) : k <= i

\* the group id a shape stands for in a query: its group's id, or -1
GroupIDOf(s) == IF s.group = NullGroup THEN NoMatch ELSE s.group.id

\* ---------------------------------------------------------------------------
\* C1: findGroupIDAt is decided by the most recently inserted shape that
\* contains the point alone: its group id if it has a group, -1 if it is
\* ungrouped, whatever the groups of the shapes below it.
\* ---------------------------------------------------------------------------
C1_TopmostDecides ==
  \A p \in Points :
    Containing(allShapes, p) # {} =>
      FindGroupIDAtResult(allShapes, p[1], p[2])
        = GroupIDOf(allShapes[Topmost(allShapes, p)])

\* a query was answered -1 at a point where an ungrouped shape lies on top
\* of a grouped one
C1_Witness ==
  /\ lastCall.op = "findGroupIDAt"
  /\ ret = NoMatch
  /\ LET p == <<lastCall.px, lastCall.py>>
     IN /\ Cardinality(Containing(allShapes, p)) >= 2
        /\ allShapes[Topmost(allShapes, p)].group = NullGroup
        /\ \E i \in Containing(allShapes, p) : allShapes[i].group # NullGroup

\* ---------------------------------------------------------------------------
\* C2: findGroupIDAt returns -1 at every point no shape contains; on an empty
\* registry that is every point.
\* ---------------------------------------------------------------------------
C2_MissIsNoMatch ==
  /\ \A p \in Points :
       Containing(allShapes, p) = {} =>
         FindGroupIDAtResult(allShapes, p[1], p[2]) = NoMatch
  /\ lastCall.op = "findGroupIDAt"
       /\ Containing(allShapes, <<lastCall.px, lastCall.py>>) = {}
     => ret = NoMatch

\* a query missed every shape of a registry that holds grouped shapes
C2_Witness ==
  /\ lastCall.op = "findGroupIDAt"
  /\ Containing(allShapes, <<lastCall.px, lastCall.py>>) = {}
  /\ \E i \in DOMAIN allShapes : allShapes[i].group # NullGroup
  /\ ret = NoMatch

\* ---------------------------------------------------------------------------
\* C3: the group table holds at most one entry per id; every shape inserted
\* with a non-zero id references the one entry of that id, and a query that
\* resolves to such a shape returns that id.
\* ---------------------------------------------------------------------------
C3_OneEntryPerID ==
  /\ \A i, j \in DOMAIN allGroups :
       allGroups[i].id = allGroups[j].id => i = j
  /\ \A i \in DOMAIN allShapes :
       allShapes[i].group # NullGroup =>
         /\ Cardinality({k \in DOMAIN allGroups :
                           allGroups[k].id = allShapes[i].group.id}) = 1
         /\ \E k \in DOMAIN allGroups : allGroups[k] = allShapes[i].group
  /\ lastCall.op \in AddOps /\ lastCall.groupID # 0 =>
       allShapes[Len(allShapes)].group.id = lastCall.groupID
  /\ \A p \in Points :
       Containing(allShapes, p) # {}
         /\ allShapes[Topmost(allShapes, p)].group # NullGroup
       => \E k \in DOMAIN allGroups :
            /\ allGroups[k] = allShapes[Topmost(allShapes, p)].group
            /\ FindGroupIDAtResult(allShapes, p[1], p[2]) = allGroups[k].id

\* two shapes of different kinds were inserted with the same id
C3_Witness ==
  /\ lastCall.op \in AddOps
  /\ \E i, j \in DOMAIN allShapes :
       /\ i < j
       /\ allShapes[i].kind # allShapes[j].kind
       /\ allShapes[i].group # NullGroup
       /\ allShapes[i].group = allShapes[j].group
  /\ Len(allGroups) = 1

\* ---------------------------------------------------------------------------
\* C4: the group table never holds an entry of id 0; an add operation called
\* with group id 0 appends a shape without a group and leaves the group table
\* as it was.
\* ---------------------------------------------------------------------------
C4_ZeroNeverMaterialized ==
  [][ /\ \A k \in DOMAIN allGroups' : allGroups'[k].id # 0
      /\ lastCall'.op \in AddOps /\ lastCall'.groupID = 0 =>
           /\ allGroups' = allGroups
           /\ Len(allShapes') = Len(allShapes) + 1
           /\ allShapes'[Len(allShapes')].group = NullGroup ]_vars

\* a shape was added with group id 0 to a registry that holds a group
C4_Witness ==
  /\ lastCall.op \in AddOps
  /\ lastCall.groupID = 0
  /\ allShapes[Len(allShapes)].group = NullGroup
  /\ Len(allGroups) = 1

\* ---------------------------------------------------------------------------
\* C5: a text label on which draw was never called (added with no display
\* bound, no drawAll since) contains no point, its own origin included, so a
\* query resolves as if the label were not in the list.
\* ---------------------------------------------------------------------------
\* the list without the shape at position i
WithoutShape(shapes, i) ==
  SubSeq(shapes, 1, i - 1) \o SubSeq(shapes, i + 1, Len(shapes))

C5_UndrawnTextNeverMatches ==
  \A i \in DOMAIN allShapes :
    allShapes[i].kind = "text" /\ ~textDrawn[i] =>
      \A p \in Points :
        /\ ~Contains(allShapes[i], p[1], p[2])
        /\ FindGroupIDAtResult(allShapes, p[1], p[2])
             = FindGroupIDAtResult(WithoutShape(allShapes, i), p[1], p[2])

\* a query at the origin of an undrawn grouped label on top of a grouped
\* shape returned the lower shape's group
C5_Witness ==
  /\ lastCall.op = "findGroupIDAt"
  /\ m_gfx = NullGfx
  /\ Len(allShapes) >= 2
  /\ LET top == allShapes[Len(allShapes)]
     IN /\ top.kind = "text"
        /\ ~textDrawn[Len(allShapes)]
        /\ top.group # NullGroup
        /\ lastCall.px = top.x /\ lastCall.py = top.y
        /\ ret # NoMatch
        /\ ret # top.group.id

\* ---------------------------------------------------------------------------
\* C6: a text label goes from unmeasured to measured at its first draw and
\* never back; the box cached then is never changed by a later draw, even
\* when the font table has changed since; a measured label contains (px, py)
\* exactly when bX <= px < bX+bW and bY <= py < bY+bH.
\* ---------------------------------------------------------------------------
\* the box a measurement of label s would yield under font table fonts
BoxNow(s, fonts) ==
  GetTextBounds([InitSurface EXCEPT !.font = TextFont(s, fonts),
                                    !.textSize = s.size], s.text, s.x, s.y)

\* the cached box of a label
BoxOf(s) == [bX |-> s.bX, bY |-> s.bY, bW |-> s.bW, bH |-> s.bH]

\* the positions the step's draw calls were made on
DrawnNext == {drawLog'[k].index : k \in DOMAIN drawLog'}

C6_MeasuredOnce ==
  [][ /\ \A i \in DOMAIN allShapes \cap DOMAIN allShapes' :
           allShapes[i].kind = "text" =>
             /\ allShapes[i].boundsCalculated => allShapes'[i] = allShapes[i]
             /\ ~allShapes[i].boundsCalculated /\ i \notin DrawnNext =>
                  allShapes'[i] = allShapes[i]
             /\ ~allShapes[i].boundsCalculated /\ i \in DrawnNext =>
                  /\ allShapes'[i].boundsCalculated
                  /\ BoxOf(allShapes'[i]) = BoxNow(allShapes[i], fontTable)
      /\ \A i \in DOMAIN allShapes' :
           allShapes'[i].kind = "text" =>
             /\ allShapes'[i].boundsCalculated = textDrawn'[i]
             /\ allShapes'[i].boundsCalculated =>
                  \A p \in Points :
                    Contains(allShapes'[i], p[1], p[2]) =
                      (/\ allShapes'[i].bX <= p[1]
                       /\ p[1] < allShapes'[i].bX + allShapes'[i].bW
                       /\ allShapes'[i].bY <= p[2]
                       /\ p[2] < allShapes'[i].bY + allShapes'[i].bH) ]_vars

\* drawAll has drawn a measured label whose box a measurement under the
\* present font table would not yield
C6_Witness ==
  /\ lastCall.op = "drawAll"
  /\ \E k \in DOMAIN drawLog :
       LET s == allShapes[drawLog[k].index]
       IN /\ s.kind = "text"
          /\ s.boundsCalculated
          /\ BoxOf(s) # BoxNow(s, fontTable)

\* ---------------------------------------------------------------------------
\* C7: clearAll leaves the shape list and the group table empty, so every
\* query returns -1; clearing twice leaves what clearing once leaves, and
\* clearing an empty registry changes nothing.
\* ---------------------------------------------------------------------------
C7_ClearAll ==
  LET once  == ClearAllResult(allShapes, allGroups)
      twice == ClearAllResult(once.allShapes, once.allGroups)
  IN /\ once.allShapes = <<>>
     /\ once.allGroups = <<>>
     /\ \A p \in Points : FindGroupIDAtResult(once.allShapes, p[1], p[2]) = NoMatch
     /\ twice = once
     /\ allShapes = <<>> /\ allGroups = <<>> =>
          once = [allShapes |-> allShapes, allGroups |-> allGroups]
     /\ lastCall.op = "clearAll" =>
          /\ allShapes = <<>>
          /\ allGroups = <<>>
          /\ \A p \in Points : FindGroupIDAtResult(allShapes, p[1], p[2]) = NoMatch

\* clearAll ran on a registry in which a text label had been drawn
C7_Witness ==
  /\ lastCall.op = "clearAll"
  /\ allShapes = <<>>
  /\ allGroups = <<>>
  /\ \E g \in Surfaces : gfx[g] # InitSurface

\* ---------------------------------------------------------------------------
\* C8 as stated: drawAll leaves the shape list, the group table, the font
\* table and the result of every query as they were, in every reachable
\* registry state.
\* ---------------------------------------------------------------------------
C8_DrawAllChangesNothing ==
  [][ lastCall'.op = "drawAll" =>
        /\ allShapes' = allShapes
        /\ allGroups' = allGroups
        /\ fontTable' = fontTable
        /\ \A p \in Points :
             FindGroupIDAtResult(allShapes', p[1], p[2])
               = FindGroupIDAtResult(allShapes, p[1], p[2]) ]_vars

\* ---------------------------------------------------------------------------
\* C8 amended: drawAll leaves the group table, the font table and the bound
\* display pointer as they were and changes of the shape list only the cached
\* bounds of the text labels not yet measured, which become measured; when
\* every text label is already measured (always so after a first drawAll)
\* the shape list and the result of every query are unchanged.
\* ---------------------------------------------------------------------------
\* a shape with the cached text bounds blanked
SansBounds(s) ==
  IF s.kind = "text"
  THEN [s EXCEPT !.boundsCalculated = FALSE, !.bX = 0, !.bY = 0, !.bW = 0, !.bH = 0]
  ELSE s

Unmeasured(shapes) ==
  {i \in DOMAIN shapes : shapes[i].kind = "text" /\ ~shapes[i].boundsCalculated}

C8_DrawAllOnlyMeasures ==
  [][ lastCall'.op = "drawAll" =>
        /\ allGroups' = allGroups
        /\ fontTable' = fontTable
        /\ m_gfx' = m_gfx
        /\ Len(allShapes') = Len(allShapes)
        /\ \A i \in DOMAIN allShapes :
             IF i \in Unmeasured(allShapes)
             THEN /\ SansBounds(allShapes'[i]) = SansBounds(allShapes[i])
                  /\ allShapes'[i].boundsCalculated
             ELSE allShapes'[i] = allShapes[i]
        /\ Unmeasured(allShapes') = {}
        /\ Unmeasured(allShapes) = {} =>
             /\ allShapes' = allShapes
             /\ \A p \in Points :
                  FindGroupIDAtResult(allShapes', p[1], p[2])
                    = FindGroupIDAtResult(allShapes, p[1], p[2])
        /\ lastCall.op = "drawAll" => allShapes' = allShapes ]_vars

\* drawAll ran with no display bound on a list holding a text label, and
\* the label is measured
C8_Witness ==
  /\ lastCall.op = "drawAll"
  /\ m_gfx = NullGfx
  /\ \E k \in DOMAIN drawLog :
       /\ allShapes[drawLog[k].index].kind = "text"
       /\ allShapes[drawLog[k].index].boundsCalculated
  /\ \E p \in Points : FindGroupIDAtResult(allShapes, p[1], p[2]) # NoMatch

\* ---------------------------------------------------------------------------
\* C9: drawAll calls draw on every shape of the list exactly once, oldest
\* first, most recently inserted last.
\* ---------------------------------------------------------------------------
C9_DrawAllInInsertionOrder ==
  [][ lastCall'.op = "drawAll" =>
        \E g \in Surfaces :
          drawLog' = [k \in 1..Len(allShapes) |-> [index |-> k, surface |-> g]] ]_vars

\* drawAll has drawn a list of two or more shapes
C9_Witness ==
  /\ lastCall.op = "drawAll"
  /\ Len(allShapes) >= 2
  /\ Len(drawLog) = Len(allShapes)
  /\ drawLog[1].index = 1
  /\ drawLog[Len(drawLog)].index = Len(allShapes)

\* ---------------------------------------------------------------------------
\* C10: each add operation appends exactly one shape at the end of the list,
\* leaves the earlier shapes alone, and draws the new shape once on the bound
\* display if and only if one is bound; with none bound it makes no draw call.
\* ---------------------------------------------------------------------------
KindOfOp(op) ==
  CASE op = "addRect"    -> "rect"
    [] op = "addCircle"  -> "circle"
    [] op = "addPolygon" -> "polygon"
    [] op = "addText"    -> "text"

C10_AddAppendsAndDrawsNew ==
  [][ lastCall'.op \in AddOps =>
        /\ Len(allShapes') = Len(allShapes) + 1
        /\ SubSeq(allShapes', 1, Len(allShapes)) = allShapes
        /\ allShapes'[Len(allShapes')].kind = KindOfOp(lastCall'.op)
        /\ IF m_gfx # NullGfx
           THEN /\ drawLog' = << [index |-> Len(allShapes) + 1, surface |-> m_gfx] >>
                /\ gfxLog' = Draw(SansBounds(allShapes'[Len(allShapes')]),
                                  gfx[m_gfx], fontTable).calls
           ELSE /\ drawLog' = <<>>
                /\ gfxLog' = <<>>
                /\ gfx' = gfx ]_vars

\* a shape was added behind another one with a display bound and drawn
C10_Witness ==
  /\ lastCall.op \in AddOps
  /\ m_gfx # NullGfx
  /\ Len(allShapes) >= 2
  /\ drawLog = << [index |-> Len(allShapes), surface |-> m_gfx] >>
  /\ gfxLog # <<>>

\* ---------------------------------------------------------------------------
\* C11 as stated: after TouchText::draw returns, the display's rotation,
\* font, cursor position, text color and text size all have the values they
\* had before the call.
\* ---------------------------------------------------------------------------
\* the rotations a display can be in when a draw starts
Rotations == 0..3

\* the display g, turned to rotation rot
Turned(g, rot) == [gfx[g] EXCEPT !.rotation = rot]

C11_DrawRestoresAll ==
  \A i \in DOMAIN allShapes, g \in Surfaces, rot \in Rotations :
    allShapes[i].kind = "text" =>
      TextDraw(allShapes[i], Turned(g, rot), fontTable).surf = Turned(g, rot)

\* ---------------------------------------------------------------------------
\* C11 amended: TouchText::draw restores the display's rotation only; the
\* font, the text color and the text size stay as the label set them and the
\* cursor stays where print left it.
\* ---------------------------------------------------------------------------
C11_DrawRestoresRotationOnly ==
  /\ \A g \in Surfaces : gfx[g].rotation = InitSurface.rotation
  /\ \A i \in DOMAIN allShapes, g \in Surfaces, rot \in Rotations :
       allShapes[i].kind = "text" =>
         LET s     == allShapes[i]
             after == TextDraw(s, Turned(g, rot), fontTable).surf
         IN /\ after.rotation = rot
            /\ after.font = TextFont(s, fontTable)
            /\ after.textColor = s.color
            /\ after.textSize = s.size
            /\ after.cursorY = s.y
            /\ after.cursorX = s.x + GetTextBounds(after, s.text, s.x, s.y).bW

\* addText has drawn a label whose direction is not the display's rotation
\* and whose color is not the display's former text color
C11_Witness ==
  /\ lastCall.op = "addText"
  /\ m_gfx # NullGfx
  /\ allShapes[Len(allShapes)].direction # gfx[m_gfx].rotation
  /\ gfx[m_gfx].textColor = allShapes[Len(allShapes)].color
  /\ gfx[m_gfx].textColor # InitSurface.textColor
  /\ <<"setRotation", allShapes[Len(allShapes)].direction>>
       \in {gfxLog[k] : k \in DOMAIN gfxLog}

\* ---------------------------------------------------------------------------
\* The containment tests on their own: one shape under test is added to an
\* empty list or on top of one grouped rectangle that covers every point,
\* and its contains and findGroupIDAt are called at the points of a grid.
\* ---------------------------------------------------------------------------
MaxDiameter == 7

GeomCoords == {9, 10, 17, 18, 19, 20, 21, 22, 23, 29, 30}
GeomPoints == GeomCoords \X GeomCoords

\* the rectangle below the shape under test
BaseRectCall ==
  [x |-> 0, y |-> 0, w |-> 100, h |-> 100, color |-> 31, filled |-> TRUE, groupID |-> 9]

GeomRectCalls ==
  { [x |-> 10, y |-> 10, w |-> w, h |-> h, color |-> 63488, filled |-> TRUE,
     groupID |-> 1] : w \in {0, 20}, h \in {0, 20} }
GeomCircleCalls ==
  { [x |-> 20, y |-> 20, d |-> d, color |-> 2016, filled |-> FALSE,
     groupID |-> 2] : d \in 0..MaxDiameter }
GeomPolygonCalls ==
  { [points |-> pts, color |-> 65504, groupID |-> 3] :
      pts \in { <<>>,
                << <<10, 10>> >>,
                << <<10, 10>>, <<30, 30>> >>,
                << <<18, 18>>, <<21, 20>> >>,
                << <<10, 10>>, <<30, 10>>, <<10, 30>> >>,
                << <<10, 10>>, <<10, 10>>, <<30, 30>> >>,
                << <<10, 20>>, <<20, 20>>, <<30, 20>> >> } }

\* the base rectangle is told from the shape under test by its arguments
GeomIsBase(s) == s.kind = "rect" /\ s.w = BaseRectCall.w

GeomAddBase ==
  /\ allShapes = <<>>
  /\ AddRectCall(BaseRectCall, BaseRectCall.groupID)

GeomEmptyOrBase ==
  allShapes = <<>> \/ (Len(allShapes) = 1 /\ GeomIsBase(allShapes[1]))

GeomAddRect ==
  /\ GeomEmptyOrBase
  /\ \E a \in GeomRectCalls : AddRectCall(a, a.groupID)

GeomAddCircle ==
  /\ GeomEmptyOrBase
  /\ \E a \in GeomCircleCalls : AddCircleCall(a, a.groupID)

GeomAddPolygon ==
  /\ GeomEmptyOrBase
  /\ \E a \in GeomPolygonCalls : AddPolygonCall(a, a.groupID)

\* the shape under test: the most recently inserted shape
GeomTop == allShapes[Len(allShapes)]

\* shape->contains(px, py) on the most recently inserted shape
GeomContains ==
  /\ allShapes # <<>>
  /\ \E p \in GeomPoints :
       /\ ret' = Contains(GeomTop, p[1], p[2])
       /\ lastCall' = [op |-> "contains", groupID |-> 0, px |-> p[1], py |-> p[2]]
  /\ drawLog' = <<>>
  /\ gfxLog' = <<>>
  /\ UNCHANGED <<serialVars, allGroups, allShapes, m_gfx, fontTable, gfx, textDrawn>>

GeomFind ==
  \E p \in GeomPoints : FindGroupIDAt(p[1], p[2])

GeomNext ==
  \/ GeomAddBase
  \/ GeomAddRect
  \/ GeomAddCircle
  \/ GeomAddPolygon
  \/ GeomContains
  \/ GeomFind
  \/ ClearAll

GeomSpec == Init /\ [][GeomNext]_vars

\* ---------------------------------------------------------------------------
\* C12: a rectangle (x, y, w, h) contains (px, py) exactly when
\* x <= px < x + w and y <= py < y + h: for (10, 10, 20, 20) the point
\* (29, 29) is contained and (30, 30) is not, and a rectangle of width or
\* height 0 contains no point.
\* ---------------------------------------------------------------------------
InHalfOpenBox(x, y, w, h, p) ==
  /\ x <= p[1] /\ p[1] < x + w
  /\ y <= p[2] /\ p[2] < y + h

C12_RectHalfOpen ==
  allShapes # <<>> /\ GeomTop.kind = "rect" =>
    /\ \A p \in GeomPoints :
         Contains(GeomTop, p[1], p[2])
           = InHalfOpenBox(GeomTop.x, GeomTop.y, GeomTop.w, GeomTop.h, p)
    /\ GeomTop.w = 0 \/ GeomTop.h = 0 =>
         \A p \in GeomPoints : ~Contains(GeomTop, p[1], p[2])
    /\ <<GeomTop.x, GeomTop.y, GeomTop.w, GeomTop.h>> = <<10, 10, 20, 20>> =>
         /\ Contains(GeomTop, 29, 29)
         /\ ~Contains(GeomTop, 30, 30)
    /\ lastCall.op = "contains" =>
         ret = InHalfOpenBox(GeomTop.x, GeomTop.y, GeomTop.w, GeomTop.h,
                             <<lastCall.px, lastCall.py>>)

\* contains was called on the rectangle (10, 10, 20, 20) at (30, 30), the
\* corner just outside, and answered false
C12_Witness ==
  /\ lastCall.op = "contains"
  /\ allShapes # <<>>
  /\ GeomTop.kind = "rect"
  /\ <<GeomTop.x, GeomTop.y, GeomTop.w, GeomTop.h>> = <<10, 10, 20, 20>>
  /\ <<lastCall.px, lastCall.py>> = <<30, 30>>
  /\ ret = FALSE
  /\ Contains(GeomTop, 29, 29)

\* ---------------------------------------------------------------------------
\* C13: a circle of center (x, y) and diameter d contains (px, py) exactly
\* when (px-x)^2 + (py-y)^2 <= (d/2)^2 with d/2 the truncating division, so
\* an odd diameter d and d-1 give the same containment set.
\* ---------------------------------------------------------------------------
\* the inequality, with the half of a diameter d >= 0 rounded down
InDisc(x, y, d, p) ==
  (p[1] - x) * (p[1] - x) + (p[2] - y) * (p[2] - y) <= (d \div 2) * (d \div 2)

C15_SmallPolygonNeverMatches ==
  allShapes # <<>> /\ GeomTop.kind = "polygon" /\ Len(GeomTop.points) < 3 =>
    /\ \A p \in GeomPoints :
         /\ ~Contains(GeomTop, p[1], p[2])
         /\ FindGroupIDAtResult(allShapes, p[1], p[2])
              = FindGroupIDAtResult(WithoutShape(allShapes, Len(allShapes)), p[1], p[2])
    /\ lastCall.op = "contains" => ret = FALSE
    /\ lastCall.op = "findGroupIDAt" =>
         ret = FindGroupIDAtResult(WithoutShape(allShapes, Len(allShapes)),
                                   lastCall.px, lastCall.py)

\* a query between the two points of a grouped 2-point polygon that lies on
\* top of a grouped rectangle returned the rectangle's group
C15_Witness ==
  /\ lastCall.op = "findGroupIDAt"
  /\ Len(allShapes) = 2
  /\ GeomTop.kind = "polygon"
  /\ Len(GeomTop.points) = 2
  /\ GeomTop.group # NullGroup
  /\ GeomTop.points[1][1] < lastCall.px /\ lastCall.px < GeomTop.points[2][1]
  /\ GeomTop.points[1][2] < lastCall.py /\ lastCall.py < GeomTop.points[2][2]
  /\ ret = allShapes[1].group.id
  /\ ret # GeomTop.group.id

\* ---------------------------------------------------------------------------
\* The unit test's fixture (test/test_touch/test_logic.cpp): setUp clears
\* the manager and adds a rectangle and two circles, then a test queries.
\* ---------------------------------------------------------------------------
TestRectCall ==
  [x |-> 10, y |-> 10, w |-> 50, h |-> 50, color |-> 2016, filled |-> TRUE, groupID |-> 1]
TestCircle2Call ==
  [x |-> 100, y |-> 35, d |-> 25, color |-> 31, filled |-> FALSE, groupID |-> 2]
TestCircle99Call ==
  [x |-> 40, y |-> 40, d |-> 20, color |-> 63488, filled |-> TRUE, groupID |-> 99]

\* the points of the tests and points around the circle of group 2
TestXs == {10, 20, 45, 59, 60, 88, 89, 100, 112, 113, 200}
TestYs == {10, 20, 22, 23, 33, 35, 45, 47, 48, 60, 200}
TestPoints == TestXs \X TestYs

TestSetUpClear ==
  /\ lastCall.op \in {"TouchManager", "findGroupIDAt"}
  /\ ClearAll

TestSetUpRect ==
  /\ lastCall.op = "clearAll"
  /\ AddRectCall(TestRectCall, TestRectCall.groupID)

TestSetUpCircle2 ==
  /\ lastCall.op = "addRect"
  /\ AddCircleCall(TestCircle2Call, TestCircle2Call.groupID)

TestSetUpCircle99 ==
  /\ lastCall.op = "addCircle"
  /\ Len(allShapes) = 2
  /\ AddCircleCall(TestCircle99Call, TestCircle99Call.groupID)

\* the fixture is complete
TestFixtureReady ==
  /\ Len(allShapes) = 3
  /\ lastCall.op \in {"addCircle", "findGroupIDAt"}

TestQuery ==
  /\ TestFixtureReady
  /\ \E p \in TestPoints : FindGroupIDAt(p[1], p[2])

TestNext ==
  \/ TestSetUpClear
  \/ TestSetUpRect
  \/ TestSetUpCircle2
  \/ TestSetUpCircle99
  \/ TestQuery

TestSpec == Init /\ [][TestNext]_vars

\* ---------------------------------------------------------------------------
\* C14: for a circle added with addCircle(x, y, d, ...) that is the topmost
\* shape there, the points (x, y-d) and (x, y+d) resolve to the circle's
\* group: with the fixture's circle (100, 35, 25, group 2),
\* findGroupIDAt(100, 10) and findGroupIDAt(100, 60) both return 2.
\* ---------------------------------------------------------------------------
C14_CircleEdgesResolve ==
  /\ \A i \in DOMAIN allShapes :
       allShapes[i].kind = "circle" =>
         \A p \in { <<allShapes[i].x, allShapes[i].y - allShapes[i].d>>,
                    <<allShapes[i].x, allShapes[i].y + allShapes[i].d>> } :
           (\A k \in (i + 1)..Len(allShapes) : ~Contains(allShapes[k], p[1], p[2]))
             => FindGroupIDAtResult(allShapes, p[1], p[2]) = GroupIDOf(allShapes[i])
  /\ lastCall.op = "findGroupIDAt" /\ TestFixtureReady
       /\ <<lastCall.px, lastCall.py>> \in { <<100, 10>>, <<100, 60>> }
     => ret = 2

\* ---------------------------------------------------------------------------
\* The add operations over the group ids an int argument can carry: the ids
\* in use, the reserved 0, and a negative id.
\* ---------------------------------------------------------------------------
IdGroupIDs == {0 - 1, 0, 1, 2}

IdAddRect ==
  /\ Len(allShapes) < MaxShapes
  /\ \E a \in RectCalls, id \in IdGroupIDs : AddRectCall(a, id)

IdAddCircle ==
  /\ Len(allShapes) < MaxShapes
  /\ \E a \in CircleCalls, id \in IdGroupIDs : AddCircleCall(a, id)

IdFind ==
  \E p \in Points : FindGroupIDAt(p[1], p[2])

IdNext ==
  \/ IdAddRect
  \/ IdAddCircle
  \/ IdFind
  \/ ClearAll

IdSpec == Init /\ [][IdNext]_vars

\* ---------------------------------------------------------------------------
\* C16: findGroupIDAt returns -1 only when no shape contains the point or
\* the topmost containing shape is ungrouped: for every group id an add
\* operation stores as a group, a touch whose topmost containing shape is of
\* that group returns that id, which is not -1.
\* ---------------------------------------------------------------------------
C16_NoMatchOnlyWithoutGroup ==
  /\ \A p \in Points :
       Containing(allShapes, p) # {}
         /\ allShapes[Topmost(allShapes, p)].group # NullGroup
       => /\ FindGroupIDAtResult(allShapes, p[1], p[2])
               = allShapes[Topmost(allShapes, p)].group.id
          /\ FindGroupIDAtResult(allShapes, p[1], p[2]) # NoMatch
  /\ lastCall.op = "findGroupIDAt" /\ ret = NoMatch =>
       LET p == <<lastCall.px, lastCall.py>>
       IN \/ Containing(allShapes, p) = {}
          \/ allShapes[Topmost(allShapes, p)].group = NullGroup

FontIndexes == (0 - 1)..(MaxFonts + 1)

OutOfRange(idx, fonts) == idx < 0 \/ idx >= Len(fonts)

CallsOf(log) == {log[k] : k \in DOMAIN log}

C18_BadFontIndexDrawsDefault ==
  /\ \A i \in DOMAIN allShapes, g \in Surfaces, idx \in FontIndexes :
       allShapes[i].kind = "text" /\ OutOfRange(idx, fontTable) =>
         LET s == [allShapes[i] EXCEPT !.fontIndex = idx]
             d == TextDraw(s, gfx[g], fontTable)
             b == GetTextBounds([d.surf EXCEPT !.font = NullFont], s.text, s.x, s.y)
         IN /\ d.surf.font = NullFont
            /\ <<"setFont", NullFont>> \in CallsOf(d.calls)
            /\ \A f \in FontHandles : <<"setFont", f>> \notin CallsOf(d.calls)
            /\ d.shape.boundsCalculated
            /\ ~s.boundsCalculated =>
                 /\ <<"getTextBounds", s.text, s.x, s.y>> \in CallsOf(d.calls)
                 /\ BoxOf(d.shape) = [bX |-> b.bX, bY |-> b.bY, bW |-> b.bW, bH |-> b.bH]
            /\ <<"print", s.text>> \in CallsOf(d.calls)
            /\ d.calls[Len(d.calls)] = <<"setRotation", gfx[g].rotation>>
            /\ d.surf.rotation = gfx[g].rotation
  /\ lastCall.op = "addText" /\ m_gfx # NullGfx
       /\ OutOfRange(allShapes[Len(allShapes)].fontIndex, fontTable) =>
         /\ gfx[m_gfx].font = NullFont
         /\ <<"setFont", NullFont>> \in CallsOf(gfxLog)
         /\ <<"print", allShapes[Len(allShapes)].text>> \in CallsOf(gfxLog)
         /\ allShapes[Len(allShapes)].boundsCalculated
         /\ textDrawn[Len(allShapes)]

\* addText has drawn a label with font index 0 while the font table is
\* empty: the default font is selected, the label is measured and the draw
\* ends by putting the rotation back
C18_Witness ==
  /\ lastCall.op = "addText"
  /\ m_gfx # NullGfx
  /\ allShapes[Len(allShapes)].fontIndex >= Len(fontTable)
  /\ allShapes[Len(allShapes)].fontIndex = 0
  /\ gfx[m_gfx].font = NullFont
  /\ <<"getTextBounds", allShapes[Len(allShapes)].text,
       allShapes[Len(allShapes)].x, allShapes[Len(allShapes)].y>> \in CallsOf(gfxLog)
  /\ gfxLog[Len(gfxLog)] = <<"setRotation", InitSurface.rotation>>

\* ---------------------------------------------------------------------------
\* The end-to-end scenario: on an empty registry two rectangles of group 1,
\* the circle of group 2 and the rectangle of group 99 are added in this
\* order, then findGroupIDAt is called at the points of a grid.
\* ---------------------------------------------------------------------------
ScenRect1Call ==
  [x |-> 10, y |-> 10, w |-> 20, h |-> 50, color |-> 63488, filled |-> TRUE, groupID |-> 1]
ScenRect2Call ==
  [x |-> 70, y |-> 10, w |-> 5, h |-> 20, color |-> 31, filled |-> FALSE, groupID |-> 1]
ScenCircleCall ==
  [x |-> 100, y |-> 35, d |-> 25, color |-> 2016, filled |-> FALSE, groupID |-> 2]
ScenRect99Call ==
  [x |-> 40, y |-> 40, w |-> 50, h |-> 50, color |-> 30735, filled |-> TRUE, groupID |-> 99]

ScenXs == {9, 10, 20, 29, 30, 45, 72, 75, 89, 100, 200}
ScenYs == {9, 10, 20, 29, 30, 33, 40, 45, 59, 60, 200}
ScenPoints == ScenXs \X ScenYs

ScenClear ==
  /\ lastCall.op \in {"TouchManager", "findGroupIDAt"}
  /\ ClearAll

ScenAddRect1 ==
  /\ lastCall.op = "clearAll"
  /\ AddRectCall(ScenRect1Call, ScenRect1Call.groupID)

ScenAddRect2 ==
  /\ lastCall.op = "addRect"
  /\ Len(allShapes) = 1
  /\ AddRectCall(ScenRect2Call, ScenRect2Call.groupID)

ScenAddCircle ==
  /\ lastCall.op = "addRect"
  /\ Len(allShapes) = 2
  /\ AddCircleCall(ScenCircleCall, ScenCircleCall.groupID)

ScenAddRect99 ==
  /\ lastCall.op = "addCircle"
  /\ AddRectCall(ScenRect99Call, ScenRect99Call.groupID)

\* the four shapes are in the list
ScenInserted ==
  /\ Len(allShapes) = 4
  /\ lastCall.op \in {"addRect", "findGroupIDAt"}

ScenQuery ==
  /\ ScenInserted
  /\ \E p \in ScenPoints : FindGroupIDAt(p[1], p[2])

ScenNext ==
  \/ ScenClear
  \/ ScenAddRect1
  \/ ScenAddRect2
  \/ ScenAddCircle
  \/ ScenAddRect99
  \/ ScenQuery

ScenSpec == Init /\ [][ScenNext]_vars

\* ---------------------------------------------------------------------------
\* C19: after rectangle(10,10,20,50, group 1), rectangle(70,10,5,20,
\* group 1), circle(100,35,25, group 2) and rectangle(40,40,50,50, group 99)
\* are added in this order to an empty registry, findGroupIDAt(20,20) = 1,
\* findGroupIDAt(100,33) = 2, findGroupIDAt(45,45) = 99 and
\* findGroupIDAt(200,200) = -1.
\* ---------------------------------------------------------------------------
C19_ScenarioResolves ==
  ScenInserted =>
    /\ [k \in 1..4 |-> [kind |-> allShapes[k].kind, x |-> allShapes[k].x,
                        y |-> allShapes[k].y, id |-> GroupIDOf(allShapes[k])]]
         = << [kind |-> "rect", x |-> 10, y |-> 10, id |-> 1],
              [kind |-> "rect", x |-> 70, y |-> 10, id |-> 1],
              [kind |-> "circle", x |-> 100, y |-> 35, id |-> 2],
              [kind |-> "rect", x |-> 40, y |-> 40, id |-> 99] >>
    /\ \A e \in { <<20, 20, 1>>, <<100, 33, 2>>, <<45, 45, 99>>,
                 <<200, 200, NoMatch>> } :
         /\ FindGroupIDAtResult(allShapes, e[1], e[2]) = e[3]
         /\ lastCall.op = "findGroupIDAt" /\ lastCall.px = e[1] /\ lastCall.py = e[2]
              => ret = e[3]

\* findGroupIDAt(45,45) has answered 99 on the four shapes of the scenario
C19_Witness ==
  /\ ScenInserted
  /\ lastCall.op = "findGroupIDAt"
  /\ lastCall.px = 45 /\ lastCall.py = 45
  /\ ret = 99
  /\ Len(allGroups) = 3

\* ---------------------------------------------------------------------------
\* TouchCircle::contains in 32-bit arithmetic, on centers, points and
\* diameters taken from the ends and the middle of the int16_t range of the
\* display's coordinates. An int32_t product or sum that leaves the int32_t
\* range is a signed overflow: the call may then return either value.
\* ---------------------------------------------------------------------------
Int16Min == 0 - 32768
Int16Max == 32767
Int32Max == 2147483647

\* the largest int32_t whose square is an int32_t: 46340 * 46340 =
\* 2147395600 <= Int32Max < 2147488281 = 46341 * 46341
Int32SqrtMax == 46340

\* v * v stays in the int32_t range
SquareFitsInt32(v) == v >= 0 - Int32SqrtMax /\ v <= Int32SqrtMax

\* every product and sum of TouchCircle::contains stays in the int32_t range
\* (px - x of two int16_t values always does)
CircleFitsInt32(s, px, py) ==
  LET dx == px - s.x
      dy == py - s.y
      r  == CDiv(s.d, 2)
  IN /\ SquareFitsInt32(dx)
     /\ SquareFitsInt32(dy)
     /\ dx * dx <= Int32Max - dy * dy
     /\ SquareFitsInt32(r)

\* the values TouchCircle::contains can return
CircleContainsOutcomes(s, px, py) ==
  IF CircleFitsInt32(s, px, py) THEN {CircleContains(s, px, py)} ELSE BOOLEAN

\* the values findGroupIDAt can return on a list of circles, from position i
\* down to 1
RECURSIVE FindOutcomes(_, _, _, _)
FindOutcomes(shapes, i, px, py) ==
  IF i < 1 THEN {NoMatch}
  ELSE LET outs == CircleContainsOutcomes(shapes[i], px, py)
       IN (IF TRUE \in outs THEN {GroupIDOf(shapes[i])} ELSE {})
            \cup (IF FALSE \in outs THEN FindOutcomes(shapes, i - 1, px, py) ELSE {})

Int16Coords == {Int16Min, 0, Int16Max}
Int16Points == Int16Coords \X Int16Coords
Int16CircleCalls ==
  [x : Int16Coords, y : Int16Coords, d : {0, 10, Int16Max},
   color : {31}, filled : {TRUE}, groupID : {2}]

Int16AddCircle ==
  /\ allShapes = <<>>
  /\ \E a \in Int16CircleCalls : AddCircleCall(a, a.groupID)

\* shape->contains(px, py) on the circle
Int16Contains ==
  /\ allShapes # <<>>
  /\ \E p \in Int16Points :
       /\ ret' \in CircleContainsOutcomes(allShapes[Len(allShapes)], p[1], p[2])
       /\ lastCall' = [op |-> "contains", groupID |-> 0, px |-> p[1], py |-> p[2]]
  /\ drawLog' = <<>>
  /\ gfxLog' = <<>>
  /\ UNCHANGED <<serialVars, allGroups, allShapes, m_gfx, fontTable, gfx, textDrawn>>

Int16Find ==
  /\ \E p \in Int16Points :
       /\ ret' \in FindOutcomes(allShapes, Len(allShapes), p[1], p[2])
       /\ lastCall' = [op |-> "findGroupIDAt", groupID |-> 0, px |-> p[1], py |-> p[2]]
  /\ drawLog' = <<>>
  /\ gfxLog' = <<>>
  /\ UNCHANGED <<serialVars, allGroups, allShapes, m_gfx, fontTable, gfx, textDrawn>>

Int16Next ==
  \/ Int16AddCircle
  \/ Int16Contains
  \/ Int16Find
  \/ ClearAll

Int16Spec == Init /\ [][Int16Next]_vars

\* ---------------------------------------------------------------------------
\* C20: for every center, point and diameter in the int16_t range, dx*dx,
\* dy*dy, their sum and r*r of the circle containment test stay in the
\* int32_t range, so contains returns exactly the value of the inequality
\* (px-x)^2 + (py-y)^2 <= (d/2)^2.
\* ---------------------------------------------------------------------------
\* (p[1]-x)^2 + (p[2]-y)^2 <= (d/2)^2 in the integers, for d >= 0: false when
\* |dx| or |dy| exceeds the radius, and otherwise a sum of small squares
ExactInDisc(x, y, d, p) ==
  LET dx == IF p[1] >= x THEN p[1] - x ELSE x - p[1]
      dy == IF p[2] >= y THEN p[2] - y ELSE y - p[2]
      r  == d \div 2
  IN dx <= r /\ dy <= r /\ dx * dx + dy * dy <= r * r

C20_CircleNeverOverflows ==
  /\ \A i \in DOMAIN allShapes, p \in Int16Points :
       allShapes[i].kind = "circle" =>
         /\ CircleFitsInt32(allShapes[i], p[1], p[2])
         /\ CircleContainsOutcomes(allShapes[i], p[1], p[2])
              = {ExactInDisc(allShapes[i].x, allShapes[i].y, allShapes[i].d, p)}
  /\ lastCall.op = "contains" /\ allShapes # <<>> =>
       ret = ExactInDisc(allShapes[Len(allShapes)].x, allShapes[Len(allShapes)].y,
                    allShapes[Len(allShapes)].d, <<lastCall.px, lastCall.py>>)

\* ---------------------------------------------------------------------------
\* C21: for every polygon of 3 or more points, horizontal edges, repeated
\* points and points all on one line included, and every query point, the
\* even-odd scan ends with a boolean and never divides by zero: the division
\* by points[j].y - points[i].y is evaluated only for an edge whose ends lie
\* on opposite sides of the query's y, so the divisor is not 0.
\* ---------------------------------------------------------------------------
C21_PolygonScanTotal ==
  /\ \A k \in DOMAIN allShapes, p \in GeomPoints :
       allShapes[k].kind = "polygon" /\ Len(allShapes[k].points) >= 3 =>
         /\ \A i \in DOMAIN allShapes[k].points :
              LET pts == allShapes[k].points
                  j   == PolygonPrev(pts, i)
              IN PolygonEdgeCrosses(pts, i, j, p[2]) =>
                   /\ pts[i][2] # pts[j][2]
                   /\ PolygonEdgeDivisor(pts, i, j) # 0
         /\ ~PolygonDividesByZero(allShapes[k], p[2])
         /\ PolygonContains(allShapes[k], p[1], p[2]) \in BOOLEAN
  /\ lastCall.op = "contains" /\ allShapes # <<>> /\ GeomTop.kind = "polygon" =>
       ret \in BOOLEAN

\* contains has answered on a polygon of three points at a query point whose
\* y is the y of both ends of one of its edges
C21_Witness ==
  /\ lastCall.op = "contains"
  /\ allShapes # <<>>
  /\ GeomTop.kind = "polygon"
  /\ Len(GeomTop.points) >= 3
  /\ \E i \in DOMAIN GeomTop.points :
       /\ GeomTop.points[i][2] = lastCall.py
       /\ GeomTop.points[PolygonPrev(GeomTop.points, i)][2] = lastCall.py
  /\ ret \in BOOLEAN

\* ---------------------------------------------------------------------------
\* Polygon outlines: polygons of 0 to 4 points are added to a manager with or
\* without a display and drawn by the add operation and by drawAll.
\* ---------------------------------------------------------------------------
OutlinePolygonCalls ==
  { [points |-> pts, color |-> 65504, groupID |-> 3] :
      pts \in { <<>>,
                << <<1, 2>> >>,
                << <<1, 2>>, <<5, 2>> >>,
                << <<1, 2>>, <<5, 2>>, <<5, 6>> >>,
                << <<1, 2>>, <<5, 2>>, <<5, 6>>, <<1, 6>> >> } }

OutlineBegin == \E g \in Surfaces \cup {NullGfx} : Begin(g)

OutlineAddPolygon ==
  /\ Len(allShapes) < MaxShapes
  /\ \E a \in OutlinePolygonCalls : AddPolygonCall(a, a.groupID)

OutlineDrawAll == \E g \in Surfaces : DrawAll(g)

OutlineNext ==
  \/ OutlineBegin
  \/ OutlineAddPolygon
  \/ OutlineDrawAll
  \/ ClearAll

OutlineSpec == Init /\ [][OutlineNext]_vars

\* ---------------------------------------------------------------------------
\* C22: drawing a polygon of n points makes no draw call for n < 2, exactly
\* one drawLine from point 0 to point 1 for n = 2, and for n >= 3 exactly n
\* drawLine calls: the n-1 segments between consecutive points in point
\* order, then one segment from the last point back to the first.
\* ---------------------------------------------------------------------------
Segment(pts, a, b, color) ==
  <<"drawLine", pts[a][1], pts[a][2], pts[b][1], pts[b][2], color>>

Outline(s) ==
  LET size == Len(s.points)
  IN IF size < 2 THEN <<>>
     ELSE IF size = 2 THEN << Segment(s.points, 1, 2, s.color) >>
     ELSE [k \in 1..size |->
             IF k < size THEN Segment(s.points, k, k + 1, s.color)
                         ELSE Segment(s.points, size, 1, s.color)]

RECURSIVE Outlines(_, _)
Outlines(shapes, i) ==
  IF i > Len(shapes) THEN <<>>
  ELSE Outline(shapes[i]) \o Outlines(shapes, i + 1)

C22_PolygonOutline ==
  /\ \A i \in DOMAIN allShapes, g \in Surfaces :
       allShapes[i].kind = "polygon" =>
         /\ PolygonDraw(allShapes[i], gfx[g]).calls = Outline(allShapes[i])
         /\ Len(PolygonDraw(allShapes[i], gfx[g]).calls)
              = (IF Len(allShapes[i].points) < 2 THEN 0
                 ELSE IF Len(allShapes[i].points) = 2 THEN 1
                 ELSE Len(allShapes[i].points))
  /\ lastCall.op = "addPolygon" /\ m_gfx # NullGfx =>
       gfxLog = Outline(allShapes[Len(allShapes)])
  /\ lastCall.op = "drawAll"
       /\ (\A i \in DOMAIN allShapes : allShapes[i].kind = "polygon") =>
       gfxLog = Outlines(allShapes, 1)

\* drawAll has drawn a polygon of two points and one of three or more: one
\* segment for the first and as many segments as points for the second
C22_Witness ==
  /\ lastCall.op = "drawAll"
  /\ Len(allShapes) = 2
  /\ allShapes[1].kind = "polygon" /\ Len(allShapes[1].points) = 2
  /\ allShapes[2].kind = "polygon" /\ Len(allShapes[2].points) >= 3
  /\ Len(gfxLog) = 1 + Len(allShapes[2].points)
  /\ gfxLog[Len(gfxLog)][4] = allShapes[2].points[1][1]
  /\ gfxLog[Len(gfxLog)][5] = allShapes[2].points[1][2]

\* ---------------------------------------------------------------------------
\* C23: in every state reached by the add operations, addFont, drawAll,
\* findGroupIDAt and clearAll, every shape that has a group points to a group
\* that is an entry of the group table, and every entry of the group table
\* has a non-zero id; on every step other than clearAll the entries of the
\* group table stay where and what they were (the table only grows).
\* ---------------------------------------------------------------------------
GroupsIntact ==
  /\ \A i \in DOMAIN allShapes :
       allShapes[i].group # NullGroup =>
         \E k \in DOMAIN allGroups : allGroups[k] = allShapes[i].group
  /\ \A k \in DOMAIN allGroups :
       allGroups[k] # NullGroup /\ allGroups[k].id # 0

C23_GroupsReferentiallyIntact ==
  [][ /\ GroupsIntact
      /\ GroupsIntact'
      /\ lastCall'.op # "clearAll" =>
           /\ Len(allGroups') >= Len(allGroups)
           /\ \A k \in DOMAIN allGroups : allGroups'[k] = allGroups[k]
      /\ lastCall'.op \notin AddOps \cup {"clearAll"} =>
           allGroups' = allGroups
    ]_vars

\* drawAll has run on two shapes of two different groups, each pointing to
\* its own entry of the group table
C23_Witness ==
  /\ lastCall.op = "drawAll"
  /\ Len(allShapes) = 2
  /\ Len(allGroups) = 2
  /\ allShapes[1].group = allGroups[1]
  /\ allShapes[2].group = allGroups[2]
  /\ allGroups[1].id # allGroups[2].id

\* ---------------------------------------------------------------------------
\* The serial command interpreter of main.cpp, loop(): one step per character
\* received, for the characters '"', '#', '5', 'C', 'a', 'y' and 'z'. None
\* of them calls the TouchManager.
\* ---------------------------------------------------------------------------
MaxNumber == 10
MaxText == 1

Digit5 == 53
LowerY == 121
SerialChars == {Quote, Hash, Digit5, UpperC, LowerA, LowerY, LowerZ}

\* "isdigit(c) || (radix > 10 && c >= 'a' && c <= 'f')"
IsDigitNow(ch) ==
  \/ ch >= Digit0 /\ ch <= Digit9
  \/ radix > 10 /\ ch >= LowerA /\ ch <= LowerF

\* the value of the digit ch
DigitValue(ch) ==
  IF radix > 10 /\ ch >= LowerA /\ ch <= LowerF
  THEN ch - LowerA + 10
  ELSE ch - Digit0

\* Serial1.peek() == 34: the quote is handled and read, nothing else is done
LoopQuote ==
  /\ IF c = Quote
     THEN IF quoting
          THEN text' = <<>> /\ quoting' = quoting
          ELSE Len(text) < MaxText /\ text' = Append(text, Quote) /\ quoting' = TRUE
     ELSE IF quoting
          THEN quoting' = FALSE /\ text' = text
          ELSE quoting' = TRUE /\ text' = <<>>
  /\ c' = Quote
  /\ UNCHANGED <<managerVars, radix, n, attr, slot>>

\* a character inside a quoted text
LoopQuoted(ch) ==
  /\ ch # Quote
  /\ quoting
  /\ Len(text) < MaxText
  /\ c' = ch
  /\ text' = Append(text, ch)
  /\ UNCHANGED <<managerVars, radix, n, attr, quoting, slot>>

\* a digit of the number
LoopDigit(ch) ==
  /\ ch # Quote
  /\ ~quoting
  /\ IsDigitNow(ch)
  /\ n * radix + DigitValue(ch) <= MaxNumber
  /\ c' = ch
  /\ n' = n * radix + DigitValue(ch)
  /\ UNCHANGED <<managerVars, radix, attr, quoting, text, slot>>

\* case '#': the radix is the number, or 16 without one (radix is a uint16_t)
LoopHash ==
  /\ ~quoting
  /\ c' = Hash
  /\ radix' = (IF n = 0 THEN 16 ELSE n % 65536)
  /\ n' = 0
  /\ UNCHANGED <<managerVars, attr, quoting, text, slot>>

\* case 'C': the color
LoopColor ==
  /\ ~quoting
  /\ c' = UpperC
  /\ attr' = [attr EXCEPT ![LTR(LowerA + 2) + 1] = n]
  /\ n' = 0
  /\ radix' = 10
  /\ UNCHANGED <<managerVars, quoting, text, slot>>

\* what "attr[LTR(c)] = n" leaves of attr, c and quoting: inside the array the
\* slot is written; past its end the store lands on whatever lies behind the
\* array, which may be c and quoting, declared next
AttrStoreOutcomes(ch) ==
  IF LTR(ch) >= 0 /\ LTR(ch) < AttrSize
  THEN { [attr |-> [attr EXCEPT ![LTR(ch) + 1] = n], c |-> ch, quoting |-> quoting] }
  ELSE [attr : {attr}, c : {ch, n % 256}, quoting : BOOLEAN]

\* "if ('a' <= c && c <= 'z')": an attribute letter
LoopAttribute(ch) ==
  /\ ~quoting
  /\ ~IsDigitNow(ch)
  /\ ch >= LowerA /\ ch <= LowerZ
  /\ \E o \in AttrStoreOutcomes(ch) :
       /\ attr' = o.attr
       /\ c' = o.c
       /\ quoting' = o.quoting
  /\ slot' = LTR(ch)
  /\ radix' = 10
  /\ n' = 0
  /\ UNCHANGED <<managerVars, text>>

SerialNext ==
  \/ LoopQuote
  \/ \E ch \in SerialChars : LoopQuoted(ch)
  \/ \E ch \in SerialChars : LoopDigit(ch)
  \/ LoopHash
  \/ LoopColor
  \/ \E ch \in SerialChars : LoopAttribute(ch)

SerialSpec == Init /\ [][SerialNext]_vars

\* ---------------------------------------------------------------------------
\* C24: every lowercase letter 'a'..'z' received outside a quoted text stores
\* the accumulated number into its own slot attr[c - 'a'] inside the bounds
\* of the attr array, then resets n to 0 and the radix to 10; no attribute
\* letter writes outside the array.
\* ---------------------------------------------------------------------------
C24_AttributeStoresInBounds ==
  [][ /\ slot' # NoSlot => slot' >= 0 /\ slot' < AttrSize
      /\ \A ch \in LowerA..LowerZ :
           ~quoting /\ ~IsDigitNow(ch) /\ c' = ch =>
             /\ slot' = LTR(ch)
             /\ LTR(ch) < AttrSize
             /\ attr'[LTR(ch) + 1] = n
             /\ n' = 0
             /\ radix' = 10
    ]_vars
====
